---- MODULE Spec2Model ----
(***************************************************************************)
(* matchAlert.py: one run of the football match alert script.             *)
(*                                                                         *)
(* Strings are sequences of tokens (a token is an indivisible piece of     *)
(* text), so concatenation is \o and "\n".join is a fold.  A run is a      *)
(* sequence of steps of main(); the HTTP service, the SMTP relay and the   *)
(* command line are the environment and choose their answers freely.       *)
(***************************************************************************)
EXTENDS Integers, Sequences, FiniteSets, TLC

VARIABLES
    pc,          \* position of the run in main / send_email_smtp
    argv,        \* the flags given on the command line
    args,        \* the parsed namespace (NoArgs before parse_args)
    requests,    \* the HTTP GETs issued so far, in order
    httpActive,  \* TRUE while requests.get is in progress
    response,    \* the HTTP response received (NoResponse before)
    jsonParsed,  \* number of response.json() calls
    matches,     \* the list get_football_matches returned
    fetchReturned, \* TRUE once get_football_matches has returned
    message,     \* the message built by main (<<>> while not built)
    out,         \* the lines printed on standard output, in order
    exitCode,    \* -1 while running, then the process exit status
    uncaught,    \* the exception that ended the run ("" if none)
    sendCalls,   \* number of calls of send_email_smtp
    conn,        \* SMTP connection: "none", "open", "closed"
    smtpOpened,  \* number of SMTP connections opened
    tls,         \* STARTTLS completed on the connection
    auth,        \* login completed on the connection
    outbox,      \* the mails handed to server.sendmail, in order
    pending,     \* the exception propagating in send_email_smtp ("" if none)
    raised       \* the exceptions raised so far inside send_email_smtp

vars == <<pc, argv, args, requests, httpActive, response, jsonParsed, matches,
          fetchReturned, message, out, exitCode, uncaught, sendCalls, conn,
          smtpOpened, tls, auth, outbox, pending, raised>>

httpVars == <<requests, httpActive, response, jsonParsed>>
smtpVars == <<sendCalls, conn, smtpOpened, tls, auth, outbox, pending, raised>>

----------------------------------------------------------------------------
(* Bounds *)

MaxMatches == 2

----------------------------------------------------------------------------
(* Command line *)

Flags == {"--api-key", "--smtp-user", "--smtp-pass", "--sender-email",
          "--recipient-email", "--date"}

RequiredFlags == {"--api-key", "--smtp-pass", "--sender-email",
                  "--recipient-email"}

\* the value that follows a flag on the command line
ArgValue(f) ==
    CASE f = "--api-key"         -> "KEY"
      [] f = "--smtp-user"       -> "mailuser"
      [] f = "--smtp-pass"       -> "SECRET"
      [] f = "--sender-email"    -> "alerts@example.org"
      [] f = "--recipient-email" -> "me@example.org"
      [] f = "--date"            -> "2024-05-01"

\* datetime.today().strftime('%Y-%m-%d')
Today == "2026-11-06"

DefaultValue(f) ==
    CASE f = "--smtp-user" -> "apikey"
      [] f = "--date"      -> Today
      [] OTHER             -> ""

NoArgs == [api_key |-> "", smtp_user |-> "", smtp_pass |-> "",
           sender_email |-> "", recipient_email |-> "", date |-> ""]

Given(av, f) == IF f \in av THEN ArgValue(f) ELSE DefaultValue(f)

Namespace(av) ==
    [api_key         |-> Given(av, "--api-key"),
     smtp_user       |-> Given(av, "--smtp-user"),
     smtp_pass       |-> Given(av, "--smtp-pass"),
     sender_email    |-> Given(av, "--sender-email"),
     recipient_email |-> Given(av, "--recipient-email"),
     date            |-> Given(av, "--date")]

----------------------------------------------------------------------------
(* Match records and HTTP responses *)

NL == "\n"

Dates == {<<"2024-05-01T15:00:00Z">>}
Names == {<<"A">>, <<"B">>, <<"Real", " ", "C">>}

Team(n) == [name |-> n]

\* records of the documented shape
FullMatches ==
    {[utcDate |-> d, homeTeam |-> Team(h), awayTeam |-> Team(a)] :
        d \in Dates, h \in Names, a \in {<<"A">>, <<"B">>}}

\* records the service may also deliver: a key is absent
PartialMatches ==
    {[homeTeam |-> Team(<<"A">>), awayTeam |-> Team(<<"B">>)],
     [utcDate |-> <<"2024-05-01T15:00:00Z">>, homeTeam |-> [id |-> <<"57">>],
      awayTeam |-> Team(<<"B">>)]}

MatchRecords == FullMatches \cup PartialMatches

MatchLists == UNION {[1..n -> MatchRecords] : n \in 0..MaxMatches}

StatusCodes == {"200", "404", "500"}

\* response bodies: a JSON object with a "matches" array, a JSON object
\* without that key, and text that is not JSON
Bodies ==
    {[text |-> "{\"matches\": [...]}", json |-> TRUE, doc |-> [matches |-> l]] :
        l \in MatchLists}
    \cup {[text |-> "{\"message\": \"...\"}", json |-> TRUE,
           doc |-> [message |-> <<"info">>]],
          [text |-> "<html>Bad Gateway</html>", json |-> FALSE,
           doc |-> [message |-> <<>>]]}

Responses == [status_code : StatusCodes, body : Bodies]

NoResponse == [status_code |-> "", body |-> [text |-> "", json |-> FALSE,
                                             doc |-> [message |-> <<>>]]]

----------------------------------------------------------------------------
(* Message composition: main, lines 72-73 *)

Header == <<"Avoid public transport during these match times:">>

\* match['utcDate'], match['homeTeam']['name'], match['awayTeam']['name']
\* all succeed
HasFields(m) ==
    /\ {"utcDate", "homeTeam", "awayTeam"} \subseteq DOMAIN m
    /\ "name" \in DOMAIN m.homeTeam
    /\ "name" \in DOMAIN m.awayTeam

\* f"{match['utcDate']} - {match['homeTeam']['name']} vs {match['awayTeam']['name']}"
FormatLine(m) ==
    m.utcDate \o <<" - ">> \o m.homeTeam.name \o <<" vs ">> \o m.awayTeam.name

\* variant: the lines are collected in reverse order
MatchTimes_reversed(ms) ==
    [i \in 1..Len(ms) |-> FormatLine(ms[Len(ms) + 1 - i])]

\* [f"..." for match in matches]
MatchTimes(ms) == [i \in 1..Len(ms) |-> FormatLine(ms[i])]

\* sep.join(lines)
RECURSIVE Join(_, _)
Join(sep, lines) ==
    IF lines = <<>> THEN <<>>
    ELSE IF Len(lines) = 1 THEN lines[1]
    ELSE lines[1] \o <<sep>> \o Join(sep, Tail(lines))

\* "Avoid public transport during these match times:\n\n" + "\n".join(match_times)
ComposeMessage(ms) == Header \o <<NL, NL>> \o Join(NL, MatchTimes(ms))

----------------------------------------------------------------------------
(* Helpers for the steps *)

\* print(line)
Stdout(line) == out' = Append(out, line)

\* an exception leaves main: the interpreter ends the process with status 1
Uncaught(e) ==
    /\ uncaught' = e
    /\ exitCode' = 1
    /\ pc' = "done"

----------------------------------------------------------------------------
(* Initial state: the process has started, nothing has run *)

Init ==
    /\ pc = "parse"
    /\ argv \in SUBSET Flags
    /\ args = NoArgs
    /\ requests = <<>>
    /\ httpActive = FALSE
    /\ response = NoResponse
    /\ jsonParsed = 0
    /\ matches = <<>>
    /\ fetchReturned = FALSE
    /\ message = <<>>
    /\ out = <<>>
    /\ exitCode = -1
    /\ uncaught = ""
    /\ sendCalls = 0
    /\ conn = "none"
    /\ smtpOpened = 0
    /\ tls = FALSE
    /\ auth = FALSE
    /\ outbox = <<>>
    /\ pending = ""
    /\ raised = {}

----------------------------------------------------------------------------
(* main *)

\* parser.parse_args(): a missing required flag ends the process with
\* status 2 (usage on standard error)
ParseArgs ==
    /\ pc = "parse"
    /\ IF RequiredFlags \subseteq argv
       THEN /\ args' = Namespace(argv)
            /\ pc' = "fetch"
            /\ UNCHANGED exitCode
       ELSE /\ exitCode' = 2
            /\ pc' = "done"
            /\ UNCHANGED args
    /\ UNCHANGED <<argv, matches, fetchReturned, message, out, uncaught>>
    /\ UNCHANGED httpVars
    /\ UNCHANGED smtpVars

\* get_football_matches: requests.get(url, headers=headers) is issued
HttpGet ==
    /\ pc = "fetch"
    /\ requests' = Append(requests,
                          [dateFrom |-> args.date, dateTo |-> args.date,
                           token |-> args.api_key])
    /\ httpActive' = TRUE
    /\ pc' = "await"
    /\ UNCHANGED <<argv, args, response, jsonParsed, matches, fetchReturned,
                   message, out, exitCode, uncaught>>
    /\ UNCHANGED smtpVars

\* requests.get raises (connection refused, timeout, ...): nothing in
\* get_football_matches or in main catches it
HttpGetRaises ==
    /\ pc = "await"
    /\ httpActive' = FALSE
    /\ Uncaught("requests.exceptions.ConnectionError")
    /\ UNCHANGED <<argv, args, requests, response, jsonParsed, matches,
                   fetchReturned, message, out>>
    /\ UNCHANGED smtpVars

\* variant: the array is returned in reverse order
JsonMatches_reversed(doc) ==
    IF "matches" \in DOMAIN doc
    THEN [i \in 1..Len(doc.matches) |-> doc.matches[Len(doc.matches) + 1 - i]]
    ELSE <<>>

\* response.json().get("matches", [])
JsonMatches(doc) == IF "matches" \in DOMAIN doc THEN doc.matches ELSE <<>>

\* variant: the status code is not looked at
FetchResult_anyStatus(resp) ==
    IF "matches" \in DOMAIN resp.body.doc THEN resp.body.doc.matches ELSE <<>>

\* the value get_football_matches returns for a response it handles
FetchResult(resp) ==
    IF resp.status_code = "200" THEN JsonMatches(resp.body.doc) ELSE <<>>

\* does get_football_matches call response.json() for this response
ParsesBody(resp) == resp.status_code = "200"

\* variant: a non-200 response makes the fetch start over
HttpGetReturns_retry(resp) ==
    /\ pc = "await"
    /\ httpActive' = FALSE
    /\ response' = resp
    /\ UNCHANGED <<argv, args, requests, message>>
    /\ UNCHANGED smtpVars
    /\ IF resp.status_code = "200"
       THEN /\ jsonParsed' = jsonParsed + 1
            /\ IF resp.body.json
               THEN /\ matches' = IF "matches" \in DOMAIN resp.body.doc
                                  THEN resp.body.doc.matches ELSE <<>>
                    /\ fetchReturned' = TRUE
                    /\ pc' = "branch"
                    /\ UNCHANGED <<out, exitCode, uncaught>>
               ELSE /\ Uncaught("requests.exceptions.JSONDecodeError")
                    /\ UNCHANGED <<matches, fetchReturned, out>>
       ELSE /\ Stdout(<<"Error fetching matches: ", resp.status_code, " - ",
                        resp.body.text>>)
            /\ pc' = IF Len(requests) < 2 THEN "fetch" ELSE "branch"
            /\ fetchReturned' = (Len(requests) >= 2)
            /\ UNCHANGED <<matches, jsonParsed, exitCode, uncaught>>

\* requests.get returns resp and get_football_matches runs to its end
HttpGetReturns(resp) ==
    /\ pc = "await"
    /\ httpActive' = FALSE
    /\ response' = resp
    /\ UNCHANGED <<argv, args, requests, message>>
    /\ UNCHANGED smtpVars
    /\ IF ParsesBody(resp)
       THEN /\ jsonParsed' = jsonParsed + 1
            /\ IF resp.body.json
               THEN /\ matches' = FetchResult(resp)
                    /\ fetchReturned' = TRUE
                    /\ pc' = "branch"
                    /\ UNCHANGED <<out, exitCode, uncaught>>
               ELSE /\ Uncaught("requests.exceptions.JSONDecodeError")
                    /\ UNCHANGED <<matches, fetchReturned, out>>
       ELSE /\ Stdout(<<"Error fetching matches: ", resp.status_code, " - ",
                        resp.body.text>>)
            /\ matches' = FetchResult(resp)
            /\ fetchReturned' = TRUE
            /\ pc' = "branch"
            /\ UNCHANGED <<jsonParsed, exitCode, uncaught>>

\* variant: the branch is always taken
Truthy_always(ms) == TRUE

\* if matches: (a non-empty list is true)
Truthy(ms) == ms # <<>>

\* main, lines 71-76: the branch on the fetched list
MainBranch ==
    /\ pc = "branch"
    /\ UNCHANGED <<argv, args, matches, fetchReturned>>
    /\ UNCHANGED httpVars
    /\ IF Truthy(matches)
       THEN IF \A i \in 1..Len(matches) : HasFields(matches[i])
            THEN /\ message' = ComposeMessage(matches)
                 /\ sendCalls' = sendCalls + 1
                 /\ pc' = "connect"
                 /\ UNCHANGED <<out, exitCode, uncaught, conn, smtpOpened,
                                tls, auth, outbox, pending, raised>>
            ELSE /\ Uncaught("KeyError")
                 /\ UNCHANGED <<message, out>>
                 /\ UNCHANGED smtpVars
       ELSE /\ Stdout(<<"No matches found for today.">>)
            /\ pc' = "exit"
            /\ UNCHANGED <<message, exitCode, uncaught>>
            /\ UNCHANGED smtpVars

----------------------------------------------------------------------------
(* send_email_smtp *)

\* the text of the exception each SMTP step may raise
ConnectError  == "[Errno 111] Connection refused"
StartTlsError == "STARTTLS extension not supported by server."
LoginError    == "(535, b'Authentication failed')"
SendmailError == "(550, b'Sender rejected')"
QuitError     == "(421, b'Service not available')"

\* msg = MIMEText(message) with its three headers, as handed to sendmail
Mail == [subject |-> "Football Match Alert", from |-> args.sender_email,
         to |-> args.recipient_email, body |-> message]

\* exception e starts propagating out of the with block or the constructor
Raise(e) ==
    /\ pending' = e
    /\ raised' = raised \cup {e}

mainVars == <<argv, args, matches, fetchReturned, message, exitCode, uncaught>>

\* smtplib.SMTP("smtp.sendgrid.net", 587): the constructor connects; when it
\* raises, the with block is never entered
SmtpConnect ==
    /\ pc = "connect"
    /\ UNCHANGED mainVars
    /\ UNCHANGED httpVars
    /\ UNCHANGED <<out, sendCalls, tls, auth, outbox>>
    /\ \/ /\ conn' = "open"
          /\ smtpOpened' = smtpOpened + 1
          /\ pc' = "starttls"
          /\ UNCHANGED <<pending, raised>>
       \/ /\ Raise(ConnectError)
          /\ pc' = "except"
          /\ UNCHANGED <<conn, smtpOpened>>

\* server.starttls()
SmtpStartTls ==
    /\ pc = "starttls"
    /\ UNCHANGED mainVars
    /\ UNCHANGED httpVars
    /\ UNCHANGED <<out, sendCalls, conn, smtpOpened, auth, outbox>>
    /\ \/ /\ tls' = TRUE
          /\ pc' = "login"
          /\ UNCHANGED <<pending, raised>>
       \/ /\ Raise(StartTlsError)
          /\ pc' = "with_exit"
          /\ UNCHANGED tls

\* variant: a failed login is ignored and the mail is sent all the same
SmtpLogin_ignored ==
    /\ pc = "login"
    /\ UNCHANGED mainVars
    /\ UNCHANGED httpVars
    /\ UNCHANGED <<out, sendCalls, conn, smtpOpened, tls, outbox, pending,
                   raised>>
    /\ pc' = "sendmail"
    /\ \/ auth' = TRUE
       \/ UNCHANGED auth

\* server.login(smtp_username, smtp_password)
SmtpLogin ==
    /\ pc = "login"
    /\ UNCHANGED mainVars
    /\ UNCHANGED httpVars
    /\ UNCHANGED <<out, sendCalls, conn, smtpOpened, tls, outbox>>
    /\ \/ /\ auth' = TRUE
          /\ pc' = "sendmail"
          /\ UNCHANGED <<pending, raised>>
       \/ /\ Raise(LoginError)
          /\ pc' = "with_exit"
          /\ UNCHANGED auth

\* server.sendmail(sender_email, recipient_email, msg.as_string())
SmtpSendmail ==
    /\ pc = "sendmail"
    /\ UNCHANGED mainVars
    /\ UNCHANGED httpVars
    /\ UNCHANGED <<out, sendCalls, conn, smtpOpened, tls, auth>>
    /\ \/ /\ outbox' = Append(outbox, Mail)
          /\ pc' = "confirm"
          /\ UNCHANGED <<pending, raised>>
       \/ /\ Raise(SendmailError)
          /\ pc' = "with_exit"
          /\ UNCHANGED outbox

\* print("Email sent successfully."), the last statement of the with block
SmtpConfirm ==
    /\ pc = "confirm"
    /\ Stdout(<<"Email sent successfully.">>)
    /\ pc' = "with_exit"
    /\ UNCHANGED mainVars
    /\ UNCHANGED httpVars
    /\ UNCHANGED smtpVars

\* the replies of the relay to the QUIT that leaving the with block sends:
\* 221, a dropped connection (ignored by smtplib), any other code (raises
\* SMTPResponseException)
QuitOutcomes == {"221", "disconnected", "other"}

\* leaving the with block, normally or with an exception: SMTP.__exit__
\* sends QUIT and closes the connection in every case
SmtpWithExit ==
    /\ pc = "with_exit"
    /\ UNCHANGED mainVars
    /\ UNCHANGED httpVars
    /\ UNCHANGED <<out, sendCalls, smtpOpened, tls, auth, outbox>>
    /\ conn' = "closed"
    /\ \E q \in QuitOutcomes :
          IF q = "other"
          THEN /\ Raise(QuitError)
               /\ pc' = "except"
          ELSE /\ UNCHANGED <<pending, raised>>
               /\ pc' = IF pending = "" THEN "exit" ELSE "except"

\* variant: the handler reports the exception and raises it again
SmtpExcept_reraises ==
    /\ pc = "except"
    /\ Stdout(<<"Error sending email: ", pending>>)
    /\ pending' = ""
    /\ Uncaught(pending)
    /\ UNCHANGED <<argv, args, matches, fetchReturned, message>>
    /\ UNCHANGED httpVars
    /\ UNCHANGED <<sendCalls, conn, smtpOpened, tls, auth, outbox, raised>>

\* except Exception as e: print(f"Error sending email: {e}")
SmtpExcept ==
    /\ pc = "except"
    /\ Stdout(<<"Error sending email: ", pending>>)
    /\ pending' = ""
    /\ pc' = "exit"
    /\ UNCHANGED mainVars
    /\ UNCHANGED httpVars
    /\ UNCHANGED <<sendCalls, conn, smtpOpened, tls, auth, outbox, raised>>

\* main returns: the process ends with status 0
Exit ==
    /\ pc = "exit"
    /\ exitCode' = 0
    /\ pc' = "done"
    /\ UNCHANGED <<argv, args, matches, fetchReturned, message, out, uncaught>>
    /\ UNCHANGED httpVars
    /\ UNCHANGED smtpVars

----------------------------------------------------------------------------

Next ==
    \/ ParseArgs
    \/ HttpGet
    \/ HttpGetRaises
    \/ \E resp \in Responses : HttpGetReturns(resp)
    \/ MainBranch
    \/ SmtpConnect
    \/ SmtpStartTls
    \/ SmtpLogin
    \/ SmtpSendmail
    \/ SmtpConfirm
    \/ SmtpWithExit
    \/ SmtpExcept
    \/ Exit

Spec == Init /\ [][Next]_vars

----------------------------------------------------------------------------
(* Observations used by the properties *)

Printed(line) == \E i \in 1..Len(out) : out[i] = line

NoMatchesLine == <<"No matches found for today.">>
SuccessLine   == <<"Email sent successfully.">>
SendErrorLine(e) == <<"Error sending email: ", e>>

\* number of printed lines that satisfy P
CountPrinted(P(_)) == Cardinality({i \in 1..Len(out) : P(out[i])})

IsNoMatchesLine(l) == l = NoMatchesLine
IsSuccessLine(l)   == l = SuccessLine
IsSendErrorLine(l) == Len(l) = 2 /\ l[1] = "Error sending email: "
IsFetchErrorLine(l) == Len(l) = 4 /\ l[1] = "Error fetching matches: "

\* the message cut at its line feeds
RECURSIVE SplitLines(_)
SplitLines(s) ==
    IF \A i \in 1..Len(s) : s[i] # NL THEN <<s>>
    ELSE LET k == CHOOSE i \in 1..Len(s) :
                     s[i] = NL /\ \A j \in 1..(i - 1) : s[j] # NL
         IN <<SubSeq(s, 1, k - 1)>> \o SplitLines(SubSeq(s, k + 1, Len(s)))

\* the three kinds of fetch error, read from what the run observed
GotNon200      == response.status_code \notin {"", "200"}
GotNetworkError == requests # <<>> /\ ~httpActive /\ response = NoResponse
GotMalformed   == response.status_code = "200" /\ ~response.body.json
FetchFailed    == GotNon200 \/ GotNetworkError \/ GotMalformed

StepErrors == {ConnectError, StartTlsError, LoginError, SendmailError}

----------------------------------------------------------------------------
(* Properties *)

\* C1: an email send is attempted only if the fetcher returned a non-empty
\* list (a message exists only if at least one match was returned); when the
\* returned list is empty and main has passed its branch, no SMTP connection
\* was opened, no message was built and the no-matches notice is printed.
C1_SendOnlyIfMatches ==
    /\ (sendCalls > 0 \/ message # <<>> \/ smtpOpened > 0 \/ outbox # <<>>)
          => (fetchReturned /\ matches # <<>>)
    /\ (fetchReturned /\ matches = <<>> /\ pc \in {"exit", "done"})
          => /\ sendCalls = 0
             /\ smtpOpened = 0
             /\ outbox = <<>>
             /\ message = <<>>
             /\ Printed(NoMatchesLine)

C1_Witness ==
    /\ pc = "done"
    /\ response.status_code = "200"
    /\ fetchReturned
    /\ matches = <<>>
    /\ Printed(NoMatchesLine)

\* C2: the message passed to send_email_smtp is the header, a blank line and
\* then exactly one line per match, in the order of the list, each line
\* "<utcDate> - <homeTeam.name> vs <awayTeam.name>".
C2_MessageLines ==
    /\ message # <<>> =>
          LET ls == SplitLines(message) IN
          /\ Len(ls) = Len(matches) + 2
          /\ ls[1] = Header
          /\ ls[2] = <<>>
          /\ \A i \in 1..Len(matches) :
                ls[i + 2] = matches[i].utcDate \o <<" - ">>
                              \o matches[i].homeTeam.name \o <<" vs ">>
                              \o matches[i].awayTeam.name
    /\ \A k \in 1..Len(outbox) : outbox[k].body = message /\ message # <<>>
    /\ (message # <<>> /\ matches = <<[utcDate |-> <<"2024-05-01T15:00:00Z">>,
                                       homeTeam |-> [name |-> <<"A">>],
                                       awayTeam |-> [name |-> <<"B">>]]>>)
          => message = <<"Avoid public transport during these match times:",
                         "\n", "\n", "2024-05-01T15:00:00Z", " - ", "A",
                         " vs ", "B">>

C2_Witness ==
    /\ outbox # <<>>
    /\ outbox[1].body = message
    /\ Len(matches) = 2
    /\ matches[1] # matches[2]
    /\ Len(matches[1].homeTeam.name) > 1

\* C3: for a response whose status is not 200, get_football_matches returns
\* an empty list and prints an error line containing the status code; it
\* does not parse the body and issues no second request.
C3_Non200 ==
    GotNon200 =>
        /\ fetchReturned
        /\ matches = <<>>
        /\ jsonParsed = 0
        /\ Len(requests) = 1
        /\ \E i \in 1..Len(out) :
              IsFetchErrorLine(out[i]) /\ out[i][2] = response.status_code

C3_Witness ==
    /\ response.status_code = "404"
    /\ "matches" \in DOMAIN response.body.doc
    /\ response.body.doc.matches # <<>>
    /\ pc = "done"

\* C4: every kind of fetch error (non-200 response, network error raised by
\* the GET, 200 response with a malformed body) is treated like "no
\* matches": the fetcher yields an empty list, main prints the no-matches
\* notice and no email is sent.
C4_FetchErrorsAreNoMatches ==
    (pc = "done" /\ FetchFailed) =>
        /\ fetchReturned
        /\ matches = <<>>
        /\ Printed(NoMatchesLine)
        /\ sendCalls = 0
        /\ uncaught = ""

C6_ExitCodeZero ==
    (pc = "done" /\ args # NoArgs) => (exitCode = 0 /\ uncaught = "")

\* C7: on an HTTP 200 response get_football_matches returns exactly the
\* array under the "matches" key of the body, unchanged in content and
\* order, and an empty array when the key is absent.
C7_Returns200Matches ==
    (response.status_code = "200" /\ fetchReturned) =>
        IF "matches" \in DOMAIN response.body.doc
        THEN /\ Len(matches) = Len(response.body.doc.matches)
             /\ \A i \in 1..Len(matches) :
                   matches[i] = response.body.doc.matches[i]
        ELSE matches = <<>>

C7_Witness ==
    /\ response.status_code = "200"
    /\ fetchReturned
    /\ Len(matches) = 2
    /\ matches[1] # matches[2]

C9_SmtpOrder ==
    /\ tls => smtpOpened = 1
    /\ auth => tls
    /\ outbox # <<>> => (tls /\ auth)
    /\ pc \in {"confirm"} => (conn = "open" /\ outbox # <<>>)
    /\ Len(outbox) <= sendCalls
    /\ smtpOpened <= sendCalls
    /\ pc \in {"except", "exit", "done"} => conn # "open"
    /\ ~(httpActive /\ conn = "open")
    /\ conn # "none" => (fetchReturned /\ ~httpActive)

C9_Witness ==
    /\ pc = "done"
    /\ conn = "closed"
    /\ outbox # <<>>
    /\ tls
    /\ auth

\* C10: a run of main that reaches its end prints exactly one of the three
\* terminal lines (no-matches notice, success confirmation, send-error
\* line); the confirmation is printed only if sendmail returned, and never
\* together with the send-error line or the notice.
C10_OneTerminalLine ==
    (pc = "done" /\ exitCode = 0) =>
        /\ CountPrinted(IsNoMatchesLine) + CountPrinted(IsSuccessLine)
              + CountPrinted(IsSendErrorLine) = 1
        /\ Printed(SuccessLine) => outbox # <<>>

====
